---- MODULE Spec2Model ----
(***************************************************************************)
(* Stratified multi-layer heat storage (MultiLayerStorage) and the heat    *)
(* pump COP formulas of mtress, as a state machine.                        *)
(*                                                                         *)
(* Numbers.  The Python code computes in floats.  A float is modelled as a *)
(* decimal floating-point number [m, e] of value m * 10^e whose mantissa   *)
(* m has seven significant digits (10^6 <= |m| < 10^7, or m = 0 and e = 0);*)
(* every arithmetic operation rounds its result to seven digits.  The      *)
(* value NaN stands for numpy's non-finite results.                        *)
(***************************************************************************)
EXTENDS Integers, Sequences, FiniteSets, TLC

Abs(n) == IF n < 0 THEN -n ELSE n

Sign(n) == IF n < 0 THEN -1 ELSE 1

\* n / 10 rounded to the nearest integer, ties to even
RoundDiv10(n) ==
    LET a == Abs(n)
        q == a \div 10
        r == a % 10
        up == r > 5 \/ (r = 5 /\ q % 2 = 1)
    IN  Sign(n) * (IF up THEN q + 1 ELSE q)

NaN == [m |-> 0, e |-> 1]

IsNaN(x) == x.m = 0 /\ x.e # 0

RECURSIVE Norm(_, _)
\* the float nearest to m * 10^e
Norm(m, e) ==
    IF m = 0 THEN [m |-> 0, e |-> 0]
    ELSE IF Abs(m) >= 10^7 THEN Norm(RoundDiv10(m), e + 1)
    ELSE IF Abs(m) < 10^6 THEN Norm(m * 10, e - 1)
    ELSE [m |-> m, e |-> e]

\* a float literal: F(27315, -2) is 273.15
F(m, e) == Norm(m, e)

FZero == F(0, 0)

FNeg(x) == IF IsNaN(x) THEN NaN ELSE [m |-> -x.m, e |-> x.e]

\* x + y
FAdd(x, y) ==
    IF IsNaN(x) \/ IsNaN(y) THEN NaN
    ELSE IF x.m = 0 THEN y
    ELSE IF y.m = 0 THEN x
    ELSE LET hi == IF x.e >= y.e THEN x ELSE y
             lo == IF x.e >= y.e THEN y ELSE x
             d  == hi.e - lo.e
         IN  IF d > 9 THEN hi
             ELSE Norm(hi.m * 100 + Sign(lo.m) * ((Abs(lo.m) * 100) \div (10^d)),
                       hi.e - 2)

\* x - y
FSub(x, y) == FAdd(x, FNeg(y))

\* x * y
FMul(x, y) ==
    IF IsNaN(x) \/ IsNaN(y) THEN NaN
    ELSE IF x.m = 0 \/ y.m = 0 THEN FZero
    ELSE LET a  == Abs(x.m)
             b  == Abs(y.m)
             a1 == a \div 10^4
             a0 == a % 10^4
             b1 == b \div 10^4
             b0 == b % 10^4
             hi == a1 * b1
             cross == a1 * b0 + a0 * b1
             lo == a0 * b0
             \* a * b = hi * 10^8 + cross * 10^4 + lo; t is a * b \div 10^6
             t  == hi * 100 + cross \div 100
                   + ((cross % 100) * 10^4 + lo) \div 10^6
         IN  Norm(Sign(x.m) * Sign(y.m) * t, x.e + y.e + 6)

RECURSIVE LongDiv(_, _, _, _)
\* k more digits of the quotient q of r / b
LongDiv(q, r, b, k) ==
    IF k = 0 THEN q
    ELSE LongDiv(q * 10 + (r * 10) \div b, (r * 10) % b, b, k - 1)

\* x / y; a zero divisor gives numpy's non-finite result
FDiv(x, y) ==
    IF IsNaN(x) \/ IsNaN(y) \/ y.m = 0 THEN NaN
    ELSE IF x.m = 0 THEN FZero
    ELSE LET a == Abs(x.m)
             b == Abs(y.m)
             q == LongDiv(a \div b, a % b, b, 8)
         IN  Norm(Sign(x.m) * Sign(y.m) * q, x.e - y.e - 8)

\* x < y, false when either is not a number
FLt(x, y) == ~IsNaN(x) /\ ~IsNaN(y) /\ FSub(x, y).m < 0

\* x <= y
FLe(x, y) == ~IsNaN(x) /\ ~IsNaN(y) /\ FSub(x, y).m <= 0

\* np.maximum(x, y): propagates NaN
FMax(x, y) == IF IsNaN(x) \/ IsNaN(y) THEN NaN ELSE IF FLt(x, y) THEN y ELSE x

\* np.minimum(x, y): propagates NaN
FMin(x, y) == IF IsNaN(x) \/ IsNaN(y) THEN NaN ELSE IF FLt(y, x) THEN y ELSE x

\* |x - y| <= tol * |y|
FClose(x, y, tol) ==
    LET d == FSub(x, y)
        ad == IF d.m < 0 THEN FNeg(d) ELSE d
        ay == IF y.m < 0 THEN FNeg(y) ELSE y
    IN  FLe(ad, FMul(tol, ay))

(***************************************************************************)
(* np.log                                                                  *)
(***************************************************************************)
LN2 == F(6931472, -7)

RECURSIVE AtanhSeries(_, _, _)
\* 1/(2j+1) + z2/(2j+3) + ... + z2^(n-j)/(2n+1)
AtanhSeries(z2, j, n) ==
    IF j = n THEN FDiv(F(1, 0), F(2 * n + 1, 0))
    ELSE FAdd(FDiv(F(1, 0), F(2 * j + 1, 0)), FMul(z2, AtanhSeries(z2, j + 1, n)))

RECURSIVE Ln(_)
\* np.log(x): ln x = 2 atanh((x - 1)/(x + 1)) for x in [1/2, 2], after halving
\* or doubling x into that range; not a number for x <= 0
Ln(x) ==
    IF IsNaN(x) \/ x.m <= 0 THEN NaN
    ELSE IF FLt(F(2, 0), x) THEN FAdd(Ln(FDiv(x, F(2, 0))), LN2)
    ELSE IF FLt(x, F(5, -1)) THEN FSub(Ln(FMul(x, F(2, 0))), LN2)
    ELSE LET z == FDiv(FSub(x, F(1, 0)), FAdd(x, F(1, 0)))
         IN  FMul(F(2, 0), FMul(z, AtanhSeries(FMul(z, z), 0, 8)))

(***************************************************************************)
(* meta_model/physics.py                                                   *)
(***************************************************************************)
ZERO_CELSIUS == F(27315, -2)

H2O_HEAT_CAPACITY == F(4182, -3)

H2O_DENSITY == F(1000, 0)

TC_INSULATION == F(4, -2)

SECONDS_PER_HOUR == F(3600, 0)

kilo_to_mega(arg) == FDiv(arg, F(1000, 0))

celsius_to_kelvin(arg) == FAdd(ZERO_CELSIUS, arg)

kelvin_to_celsius(arg) == FSub(arg, ZERO_CELSIUS)

kJ_to_MWh(arg) == kilo_to_mega(FDiv(arg, SECONDS_PER_HOUR))

\* a Carnot engine's efficiency instead of the heat pump's: the ratio inverted
carnot_efficiency_inverted(temp_in, temp_out) ==
    FDiv(FMax(FSub(temp_out, temp_in), F(1, -3)), temp_out)

\* the ratio without the np.maximum clamp of the temperature lift
carnot_efficiency_unclamped(temp_in, temp_out) ==
    FDiv(temp_out, FSub(temp_out, temp_in))

\* scalar temp_out (the isinstance branch is not taken)
carnot_efficiency(temp_in, temp_out) ==
    FDiv(temp_out, FMax(FSub(temp_out, temp_in), F(1, -3)))

\* calc_cop of meta_model.physics, scalar arguments: the try branch, max_cop a scalar
meta_calc_cop(temp_source, temp_target) ==
    LET cop_norm == F(47, -1)
        temp_source_norm == celsius_to_kelvin(F(0, 0))
        temp_target_norm == celsius_to_kelvin(F(35, 0))
        cpf == FMul(FDiv(F(1, 0), carnot_efficiency(temp_source_norm, temp_target_norm)),
                    cop_norm)
        max_cop == cop_norm
    IN  FMin(FMul(carnot_efficiency(temp_source, temp_target), cpf), max_cop)

(***************************************************************************)
(* mtress/physics/_helper_functions.py                                     *)
(***************************************************************************)
\* ZERO_CELSIUS of mtress.physics._constants
helper_ZERO_CELSIUS == F(27315, -2)

helper_celsius_to_kelvin(arg) == FAdd(helper_ZERO_CELSIUS, arg)

\* np.log(0) is -inf, and a finite number over -inf is 0
mean_logarithmic_temperature(t_high, t_low) ==
    IF t_low = FZero /\ ~IsNaN(t_high) /\ t_high # FZero THEN FZero
    ELSE FDiv(FSub(t_low, t_high), Ln(FDiv(t_low, t_high)))

\* the ratio inverted: the temperature lift over the outlet temperature
lorenz_cop_inverted(temp_in, temp_out) ==
    FDiv(FMax(FSub(temp_out, temp_in), F(1, -3)), temp_out)

lorenz_cop(temp_in, temp_out) ==
    FDiv(temp_out, FMax(FSub(temp_out, temp_in), F(1, -3)))

\* an optional argument is <<>> (None, the default) or <<x>>
None == <<>>

Some(x) == <<x>>

\* Python's "not arg": true of None and of the number zero
Not(arg) == arg = None \/ arg[1] = FZero

\* Acc. to EN14511 (B0/W35)
temp_input_high_norm == helper_celsius_to_kelvin(F(0, 0))

temp_input_low_norm == helper_celsius_to_kelvin(F(-3, 0))

temp_output_high_norm == helper_celsius_to_kelvin(F(35, 0))

temp_output_low_norm == helper_celsius_to_kelvin(F(30, 0))

temp_input_norm ==
    mean_logarithmic_temperature(temp_input_high_norm, temp_input_low_norm)

temp_output_norm ==
    mean_logarithmic_temperature(temp_output_high_norm, temp_output_low_norm)

\* calc_cop calibrated at the high norm temperatures 0 degC / 35 degC, without
\* the log-mean of the norm glides
calc_cop_high_norm(temp_input_high, temp_output_high, temp_input_low, temp_output_low, cop_0_35) ==
    LET temp_input ==
            IF Not(temp_input_low) THEN temp_input_high
            ELSE mean_logarithmic_temperature(temp_input_high, temp_input_low[1])
        temp_output ==
            IF Not(temp_output_low) THEN temp_output_high
            ELSE mean_logarithmic_temperature(temp_output_high, temp_output_low[1])
        cpf == FDiv(cop_0_35, lorenz_cop(temp_input_high_norm, temp_output_high_norm))
        cop == FMul(cpf, lorenz_cop(temp_input, temp_output))
    IN  cop

calc_cop(temp_input_high, temp_output_high, temp_input_low, temp_output_low, cop_0_35) ==
    LET temp_input ==
            IF Not(temp_input_low) THEN temp_input_high
            ELSE mean_logarithmic_temperature(temp_input_high, temp_input_low[1])
        temp_output ==
            IF Not(temp_output_low) THEN temp_output_high
            ELSE mean_logarithmic_temperature(temp_output_high, temp_output_low[1])
        cpf == FDiv(cop_0_35, lorenz_cop(temp_input_norm, temp_output_norm))
        cop == FMul(cpf, lorenz_cop(temp_input, temp_output))
    IN  cop

\* the default of cop_0_35
COP_0_35 == F(46, -1)

(***************************************************************************)
(* meta_model/layered_heat/_multi_layer_storage.py                         *)
(***************************************************************************)
\* the integer nearest to x, ties to even: the digits "{0:.0f}".format(x) prints
Format0f(x) ==
    IF x.e >= 0 THEN x.m * 10^(x.e)
    ELSE IF -x.e > 8 THEN 0
    ELSE LET p == 10^(-x.e)
             a == Abs(x.m)
             q == a \div p
             r == a % p
             up == 2 * r > p \/ (2 * r = p /\ q % 2 = 1)
         IN  Sign(x.m) * (IF up THEN q + 1 ELSE q)

\* 's_heat_' + temperature_str
StorageLabel(temperature) == <<"s_heat_", Format0f(temperature)>>

\* hs_capacity of one level
HsCapacity(volume_, temperature, reference_temperature) ==
    FMul(volume_,
         kJ_to_MWh(FMul(FMul(FSub(celsius_to_kelvin(temperature), reference_temperature),
                             H2O_DENSITY),
                        H2O_HEAT_CAPACITY)))

\* thermal.stratified_thermal_storage.calculate_losses: an external, deterministic
\* estimator; its three results are kept as terms over its arguments
CalculateLosses(u_value, diameter_, temp_h, temp_c, temp_env) ==
    [q \in {"loss_rate", "fixed_losses_relative", "fixed_losses_absolute"} |->
        [estimate |-> q, u_value |-> u_value, diameter |-> diameter_,
         temp_h |-> temp_h, temp_c |-> temp_c, temp_env |-> temp_env]]

\* the branch taken only for a thickness of exactly zero
IsUninsulatedOnlyZero(insulation) == insulation.m = 0

\* self._heat_storage_insulation <= 0
IsUninsulated(insulation) == FLe(insulation, FZero)

\* the three loss parameters of one level
HsLosses(insulation, diameter_, temperature, reference_temperature, ambient) ==
    IF IsUninsulated(insulation)
    THEN [q \in {"loss_rate", "fixed_losses_relative", "fixed_losses_absolute"} |-> FZero]
    ELSE CalculateLosses(FDiv(TC_INSULATION, insulation), diameter_, temperature,
                         reference_temperature, ambient)

\* solph.GenericStorage(...) for one level
GenericStorage(storage_label, b_th_level, hs_capacity, losses) ==
    [label |-> storage_label,
     inputs |-> b_th_level,
     outputs |-> b_th_level,
     nominal_storage_capacity |-> hs_capacity,
     loss_rate |-> losses["loss_rate"],
     fixed_losses_absolute |-> losses["fixed_losses_absolute"],
     fixed_losses_relative |-> losses["fixed_losses_relative"]]

\* the weight taken in the capacity's unit, MWh: kJ_to_MWh for kilo_to_mega
WFactorPerMWh(temp, reference_temperature) ==
    FDiv(F(1, 0),
         kJ_to_MWh(FMul(FMul(H2O_HEAT_CAPACITY, H2O_DENSITY),
                        FSub(celsius_to_kelvin(temp), reference_temperature))))

\* the weight without the reciprocal: the energy density itself
WFactorNotInverted(temp, reference_temperature) ==
    kilo_to_mega(FMul(FMul(H2O_HEAT_CAPACITY, H2O_DENSITY),
                      FSub(celsius_to_kelvin(temp), reference_temperature)))

\* the weight of one level in add_shared_limit
WFactor(temp, reference_temperature) ==
    FDiv(F(1, 0),
         kilo_to_mega(FMul(FMul(H2O_HEAT_CAPACITY, H2O_DENSITY),
                           FSub(celsius_to_kelvin(temp), reference_temperature))))

(***************************************************************************)
(* Bounds and input sets                                                   *)
(***************************************************************************)
\* the longest list of temperature levels of a tank
MaxLevels == 3

\* the most add_shared_limit calls made on one tank
MaxSharedLimitCalls == 2

\* two builder invocations with the same inputs, each on its own graph and model
Tanks == {1, 2}

\* temperature levels as HeatLayers exposes them
LevelValues == {F(20, 0), F(40, 0), F(404, -1), F(60, 0)}

\* reference temperatures as HeatLayers exposes them: 20 degC and 40 degC in Kelvin
ReferenceValues == {F(29315, -2), F(31315, -2)}

InsulationValues == {F(-1, -1), F(0, 0), F(1, -1)}

VolumeValues == {F(2, 0), F(35, -1)}

RECURSIVE SeqsUpTo(_, _)
\* the lists of at most n elements of S
SeqsUpTo(S, n) ==
    IF n = 0 THEN {<<>>}
    ELSE LET shorter == SeqsUpTo(S, n - 1)
         IN  shorter \cup {Append(q, x) : q \in shorter, x \in S}

\* ordered lists of pairwise different levels, increasing or not
LevelLists ==
    {q \in SeqsUpTo(LevelValues, MaxLevels) :
        /\ Len(q) >= 1
        /\ \A i, j \in 1..Len(q) : i # j => q[i] # q[j]}

Range(q) == {q[i] : i \in 1..Len(q)}

VARIABLES
    diameter,               \* constructor argument
    volume,                 \* constructor argument
    insulation_thickness,   \* constructor argument
    ambient_temperature,    \* constructor argument
    heat_layers,            \* constructor argument: temperature_levels,
                            \* reference_temperature, b_th
    pc,                     \* per tank: "new", "loop", "done" or "failed"
    error,                  \* per tank: the exception that reached the caller
    h_storage_comp,         \* per tank: self._h_storage_comp
    energy_system,          \* per tank: the nodes of heat_layers.energy_system
    shared_limits,          \* per tank: the solph.constraints.shared_limit calls made
    shared_limit_returns,   \* per tank: how many add_shared_limit calls have returned
    prev_call,              \* the physics call before the last one
    last_call               \* the last physics call and its result

inputs == <<diameter, volume, insulation_thickness, ambient_temperature, heat_layers>>

tankvars == <<pc, error, h_storage_comp, energy_system, shared_limits, shared_limit_returns>>

physvars == <<prev_call, last_call>>

vars == <<inputs, tankvars, physvars>>

NoCall ==
    [fn |-> "none", temp_in |-> FZero, temp_out |-> FZero,
     in_low |-> None, out_low |-> None, result |-> FZero]

temperature_levels == heat_layers.temperature_levels

reference_temperature == heat_layers.reference_temperature

\* the state before any constructor call
TanksNew ==
    /\ pc = [t \in Tanks |-> "new"]
    /\ error = [t \in Tanks |-> "none"]
    /\ h_storage_comp = [t \in Tanks |-> <<>>]
    /\ energy_system = [t \in Tanks |-> <<>>]
    /\ shared_limits = [t \in Tanks |-> <<>>]
    /\ shared_limit_returns = [t \in Tanks |-> 0]

Init ==
    /\ diameter = F(1, 0)
    /\ volume \in VolumeValues
    /\ insulation_thickness \in InsulationValues
    /\ ambient_temperature = F(10, 0)
    /\ \E levels \in LevelLists, ref \in ReferenceValues, nobus \in BOOLEAN :
          heat_layers =
              [temperature_levels |-> levels,
               reference_temperature |-> ref,
               \* b_th: a bus per level, or the last level's bus missing
               b_th |-> [T \in (IF nobus THEN Range(levels) \ {levels[Len(levels)]}
                                ELSE Range(levels)) |-> <<"b_th", T>>]]
    /\ TanksNew
    /\ prev_call = NoCall
    /\ last_call = NoCall

\* Python runs one constructor at a time
NoneRunning == \A t \in Tanks : pc[t] # "loop"

\* __init__, lines 41-49: the fields are set and the loop is entered
Construct(t) ==
    /\ pc[t] = "new"
    /\ NoneRunning
    /\ h_storage_comp' = [h_storage_comp EXCEPT ![t] = <<>>]
    /\ pc' = [pc EXCEPT ![t] = IF temperature_levels = <<>> THEN "done" ELSE "loop"]
    /\ UNCHANGED <<inputs, error, energy_system, shared_limits, shared_limit_returns, physvars>>

\* the level the loop of tank t is at
Temperature(t) == temperature_levels[Len(h_storage_comp[t]) + 1]

\* s_heat of the loop's current level
SHeat(t) ==
    LET temperature == Temperature(t)
    IN  GenericStorage(StorageLabel(temperature),
                       heat_layers.b_th[temperature],
                       HsCapacity(volume, temperature, heat_layers.reference_temperature),
                       HsLosses(insulation_thickness, diameter, temperature,
                                reference_temperature, ambient_temperature))

\* one pass of the loop with every tank registering into one shared graph
BuildLayerSharedGraph(t) ==
    /\ pc[t] = "loop"
    /\ Temperature(t) \in DOMAIN heat_layers.b_th
    /\ h_storage_comp' = [h_storage_comp EXCEPT ![t] = Append(@, SHeat(t))]
    /\ energy_system' = [u \in Tanks |-> Append(energy_system[u], SHeat(t))]
    /\ pc' = [pc EXCEPT ![t] =
                IF Len(h_storage_comp[t]) + 1 = Len(temperature_levels)
                THEN "done" ELSE "loop"]
    /\ UNCHANGED <<inputs, error, shared_limits, shared_limit_returns, physvars>>

\* one pass of the loop, lines 51-88
BuildLayer(t) ==
    /\ pc[t] = "loop"
    /\ Temperature(t) \in DOMAIN heat_layers.b_th
    /\ h_storage_comp' = [h_storage_comp EXCEPT ![t] = Append(@, SHeat(t))]
    /\ energy_system' = [energy_system EXCEPT ![t] = Append(@, SHeat(t))]
    /\ pc' = [pc EXCEPT ![t] =
                IF Len(h_storage_comp[t]) + 1 = Len(temperature_levels)
                THEN "done" ELSE "loop"]
    /\ UNCHANGED <<inputs, error, shared_limits, shared_limit_returns, physvars>>

\* line 54: heat_layers.b_th has no bus for the level
FailBus(t) ==
    /\ pc[t] = "loop"
    /\ Temperature(t) \notin DOMAIN heat_layers.b_th
    /\ pc' = [pc EXCEPT ![t] = "failed"]
    /\ error' = [error EXCEPT ![t] = "KeyError"]
    /\ UNCHANGED <<inputs, h_storage_comp, energy_system, shared_limits, shared_limit_returns, physvars>>

\* lines 67-75: the thermal-loss estimator raises
FailLosses(t) ==
    /\ pc[t] = "loop"
    /\ Temperature(t) \in DOMAIN heat_layers.b_th
    /\ ~IsUninsulated(insulation_thickness)
    /\ pc' = [pc EXCEPT ![t] = "failed"]
    /\ error' = [error EXCEPT ![t] = "calculate_losses"]
    /\ UNCHANGED <<inputs, h_storage_comp, energy_system, shared_limits, shared_limit_returns, physvars>>

\* lines 87-88: the layer is appended to the list, then energy_system.add raises
FailAdd(t) ==
    /\ pc[t] = "loop"
    /\ Temperature(t) \in DOMAIN heat_layers.b_th
    /\ h_storage_comp' = [h_storage_comp EXCEPT ![t] = Append(@, SHeat(t))]
    /\ pc' = [pc EXCEPT ![t] = "failed"]
    /\ error' = [error EXCEPT ![t] = "energy_system.add"]
    /\ UNCHANGED <<inputs, energy_system, shared_limits, shared_limit_returns, physvars>>

\* w_factor computed over the levels in reverse order
w_factor_reversed ==
    [i \in 1..Len(temperature_levels) |->
        WFactor(temperature_levels[Len(temperature_levels) + 1 - i],
                reference_temperature)]

\* w_factor of add_shared_limit
w_factor ==
    [i \in 1..Len(temperature_levels) |->
        WFactor(temperature_levels[i], reference_temperature)]

\* 1 / 0 in w_factor: a level whose energy density is zero
WFactorDividesByZero ==
    \E i \in 1..Len(temperature_levels) :
        kilo_to_mega(FMul(FMul(H2O_HEAT_CAPACITY, H2O_DENSITY),
                          FSub(celsius_to_kelvin(temperature_levels[i]),
                               reference_temperature))) = FZero

\* the one solph.constraints.shared_limit call of add_shared_limit
SharedLimitCall(t) ==
    [limit_name |-> "storage_limit",
     components |-> h_storage_comp[t],
     weights |-> w_factor,
     upper_limit |-> volume]

\* the shared limit registered from inside the constructor's loop as well
AddSharedLimitInLoop(t) ==
    /\ pc[t] \in {"loop", "done"}
    /\ ~WFactorDividesByZero
    /\ shared_limit_returns[t] < MaxSharedLimitCalls
    /\ shared_limits' = [shared_limits EXCEPT ![t] = Append(@, SharedLimitCall(t))]
    /\ shared_limit_returns' = [shared_limit_returns EXCEPT ![t] = @ + 1]
    /\ UNCHANGED <<inputs, pc, error, h_storage_comp, energy_system, physvars>>

\* add_shared_limit guarded by a flag set at the first call
AddSharedLimitOnce(t) ==
    /\ pc[t] = "done"
    /\ NoneRunning
    /\ ~WFactorDividesByZero
    /\ shared_limit_returns[t] < MaxSharedLimitCalls
    /\ shared_limits' = [shared_limits EXCEPT ![t] =
                            IF @ = <<>> THEN <<SharedLimitCall(t)>> ELSE @]
    /\ shared_limit_returns' = [shared_limit_returns EXCEPT ![t] = @ + 1]
    /\ UNCHANGED <<inputs, pc, error, h_storage_comp, energy_system, physvars>>

\* add_shared_limit, lines 94-103, on the model of tank t
AddSharedLimit(t) ==
    /\ pc[t] = "done"
    /\ NoneRunning
    /\ ~WFactorDividesByZero
    /\ shared_limit_returns[t] < MaxSharedLimitCalls
    /\ shared_limits' = [shared_limits EXCEPT ![t] = Append(@, SharedLimitCall(t))]
    /\ shared_limit_returns' = [shared_limit_returns EXCEPT ![t] = @ + 1]
    /\ UNCHANGED <<inputs, pc, error, h_storage_comp, energy_system, physvars>>

\* add_shared_limit, lines 94-98: the list comprehension divides by zero
AddSharedLimitFail(t) ==
    /\ pc[t] = "done"
    /\ NoneRunning
    /\ WFactorDividesByZero
    /\ error[t] = "none"
    /\ error' = [error EXCEPT ![t] = "ZeroDivisionError"]
    /\ UNCHANGED <<inputs, pc, h_storage_comp, energy_system, shared_limits, shared_limit_returns, physvars>>

Next ==
    \E t \in Tanks :
        \/ Construct(t)
        \/ BuildLayer(t)
        \/ FailBus(t)
        \/ FailLosses(t)
        \/ FailAdd(t)
        \/ AddSharedLimit(t)
        \/ AddSharedLimitFail(t)

Spec == Init /\ [][Next]_vars
(***************************************************************************)
(* The physics functions, called with scalar arguments                     *)
(***************************************************************************)
\* source temperatures: 0 degC and 10 degC in Kelvin
SourceValues == {F(27315, -2), F(28315, -2)}

\* sink temperatures in Kelvin: -10 degC, 10 degC, two within 1e-3 K above it,
\* 20, 35, 50 degC
SinkValues ==
    {F(26315, -2), F(28315, -2), F(2831505, -4), F(2831508, -4),
     F(29315, -2), F(30815, -2), F(32315, -2)}

\* low-side source temperatures: absent, -3 degC, the number zero, 0 degC
InLowValues == {None, Some(F(27015, -2)), Some(FZero), Some(F(27315, -2))}

\* low-side sink temperatures: absent, 30 degC, the number zero, 35 degC
OutLowValues == {None, Some(F(30315, -2)), Some(FZero), Some(F(30815, -2))}

InitPhysics ==
    /\ diameter = F(1, 0)
    /\ volume = F(2, 0)
    /\ insulation_thickness = FZero
    /\ ambient_temperature = F(10, 0)
    /\ heat_layers = [temperature_levels |-> <<F(40, 0)>>,
                      reference_temperature |-> F(29315, -2),
                      b_th |-> [T \in {F(40, 0)} |-> <<"b_th", T>>]]
    /\ TanksNew
    /\ prev_call = NoCall
    /\ last_call = NoCall

\* a call returns: it becomes the last call
Returns(fn, temp_in, temp_out, in_low, out_low, result) ==
    /\ prev_call' = last_call
    /\ last_call' = [fn |-> fn, temp_in |-> temp_in, temp_out |-> temp_out,
                     in_low |-> in_low, out_low |-> out_low, result |-> result]
    /\ UNCHANGED <<inputs, tankvars>>

CallCarnotEfficiency ==
    \E temp_in \in SourceValues, temp_out \in SinkValues :
        Returns("carnot_efficiency", temp_in, temp_out, None, None,
                carnot_efficiency(temp_in, temp_out))

CallLorenzCop ==
    \E temp_in \in SourceValues, temp_out \in SinkValues :
        Returns("lorenz_cop", temp_in, temp_out, None, None,
                lorenz_cop(temp_in, temp_out))

CallMetaCalcCop ==
    \E temp_source \in SourceValues, temp_target \in SinkValues :
        Returns("meta_model.calc_cop", temp_source, temp_target, None, None,
                meta_calc_cop(temp_source, temp_target))

\* calc_cop(temp_input_high, temp_output_high): the low sides and cop_0_35 defaulted
CallCalcCop ==
    \E temp_input_high \in SourceValues, temp_output_high \in SinkValues :
        Returns("calc_cop", temp_input_high, temp_output_high, None, None,
                calc_cop(temp_input_high, temp_output_high, None, None, COP_0_35))

\* calc_cop at 0 degC / 35 degC with low sides given
CallCalcCopGlide ==
    \E temp_input_low \in InLowValues, temp_output_low \in OutLowValues :
        /\ <<temp_input_low, temp_output_low>> # <<None, None>>
        /\ Returns("calc_cop", F(27315, -2), F(30815, -2), temp_input_low, temp_output_low,
                   calc_cop(F(27315, -2), F(30815, -2), temp_input_low, temp_output_low,
                            COP_0_35))

NextPhysics ==
    \/ CallCarnotEfficiency
    \/ CallLorenzCop
    \/ CallMetaCalcCop
    \/ CallCalcCop
    \/ CallCalcCopGlide

SpecPhysics == InitPhysics /\ [][NextPhysics]_vars

(***************************************************************************)
(* Properties of the storage builder (specification Spec)                  *)
(***************************************************************************)
\* the layers of tank t, held by the builder or registered with the graph
Layers(t) == Range(h_storage_comp[t]) \cup Range(energy_system[t])

NoLosses(layer) ==
    /\ layer.loss_rate = FZero
    /\ layer.fixed_losses_relative = FZero
    /\ layer.fixed_losses_absolute = FZero

\* the level, as the constructor takes it, is strictly above the reference
AboveReference(level) == FLt(reference_temperature, celsius_to_kelvin(level))

StrictlyIncreasing(levels) ==
    \A i \in 1..Len(levels) - 1 : FLt(levels[i], levels[i + 1])

\* volume > 0 and every level strictly above the reference temperature
ValidTank ==
    /\ FLt(FZero, volume)
    /\ \A i \in 1..Len(temperature_levels) : AboveReference(temperature_levels[i])

RECURSIVE FSum(_)
\* the sum of a list of floats, left to right
FSum(q) == IF q = <<>> THEN FZero ELSE FAdd(FSum(SubSeq(q, 1, Len(q) - 1)), q[Len(q)])

\* the list of w_i * capacity_i of a constructed tank
WeightedCapacities(t) ==
    [i \in 1..Len(h_storage_comp[t]) |->
        FMul(w_factor[i], h_storage_comp[t][i].nominal_storage_capacity)]

\* C1: with an insulation thickness of zero or less, every storage layer of
\* every level has loss_rate, fixed_losses_relative and fixed_losses_absolute
\* exactly zero.
C1_NoInsulationNoLosses ==
    insulation_thickness.m <= 0 =>
        \A t \in Tanks : \A layer \in Layers(t) : NoLosses(layer)

\* a tank of several levels built with a negative thickness
C1_Witness ==
    /\ insulation_thickness.m < 0
    /\ \E t \in Tanks : pc[t] = "done" /\ Len(energy_system[t]) >= 2

\* C2 as claimed: for a valid tank the sum over the levels of w_i * capacity_i
\* equals the tank's volume.
C2_SumIsVolume ==
    \A t \in Tanks :
        (pc[t] = "done" /\ ValidTank) =>
            FClose(FSum(WeightedCapacities(t)), volume, F(1, -5))

\* C2 amended: for a valid tank each w_i * capacity_i is volume / 3600 (the
\* capacity is in MWh, the weight per MJ), so the sum over the N levels is
\* N * volume / 3600.
C2_SumIsVolumePerHourSeconds ==
    \A t \in Tanks :
        (pc[t] = "done" /\ ValidTank) =>
            /\ \A i \in 1..Len(h_storage_comp[t]) :
                  FClose(WeightedCapacities(t)[i], FDiv(volume, SECONDS_PER_HOUR),
                         F(1, -5))
            /\ FClose(FSum(WeightedCapacities(t)),
                      FDiv(FMul(F(Len(temperature_levels), 0), volume), SECONDS_PER_HOUR),
                      F(1, -5))

\* a valid tank of three levels has been built
C2_Witness ==
    \E t \in Tanks :
        pc[t] = "done" /\ ValidTank /\ Len(h_storage_comp[t]) = 3

\* the level list is not strictly increasing or has a level at or below the reference
InvalidLevels ==
    \/ ~StrictlyIncreasing(temperature_levels)
    \/ \E i \in 1..Len(temperature_levels) : ~AboveReference(temperature_levels[i])

\* C3: a level list that is not strictly increasing, or holds a level not
\* strictly above the reference, is rejected: the constructor never completes
\* and no layer of non-positive capacity is ever produced.
C3_InvalidLevelsRejected ==
    \A t \in Tanks :
        /\ InvalidLevels => pc[t] # "done"
        /\ \A layer \in Layers(t) : FLt(FZero, layer.nominal_storage_capacity)

\* C4: when construction fails at a level, the graph holds no layer of the
\* tank; once construction has ended the graph never holds layers for only a
\* strict subset of the levels.
C4_NoPartialTank ==
    \A t \in Tanks :
        /\ pc[t] = "failed" => error[t] # "none" /\ energy_system[t] = <<>>
        /\ pc[t] \in {"done", "failed"} =>
              Len(energy_system[t]) \in {0, Len(temperature_levels)}

\* C5 as claimed: whatever the sequence of add_shared_limit calls, at most one
\* 'storage_limit' registration is performed for a tank.
C5_AtMostOneRegistration ==
    \A t \in Tanks : Len(shared_limits[t]) <= 1

\* C5 amended: add_shared_limit has no guard; every call that returns performs
\* exactly one 'storage_limit' registration, so a tank has as many
\* registrations as returned calls, and every one of them is the same
\* registration (name, full layer list, weights, upper limit), unchanged by
\* later operations.
C5_OneRegistrationPerCall ==
    \A t \in Tanks :
        /\ Len(shared_limits[t]) = shared_limit_returns[t]
        /\ \A i \in 1..Len(shared_limits[t]) :
              /\ shared_limits[t][i] = SharedLimitCall(t)
              /\ shared_limits[t][i].limit_name = "storage_limit"

\* add_shared_limit has returned twice on one tank
C5_Witness ==
    \E t \in Tanks : shared_limit_returns[t] = 2 /\ Len(shared_limits[t]) = 2

\* the parts of a layer the builder computes
Structure(layer) ==
    <<layer.label, layer.nominal_storage_capacity,
      layer.loss_rate, layer.fixed_losses_relative, layer.fixed_losses_absolute>>

C7_LabelsDistinct ==
    \A t \in Tanks :
        \A i, j \in 1..Len(energy_system[t]) :
            i # j => energy_system[t][i].label # energy_system[t][j].label

\* layer i of tank t belongs to level i: it is bound to that level's bus and
\* carries that level's label
LayerOfLevel(layer, i) ==
    /\ layer.inputs = <<"b_th", temperature_levels[i]>>
    /\ layer.outputs = <<"b_th", temperature_levels[i]>>
    /\ layer.label = StorageLabel(temperature_levels[i])

\* C12: whenever the shared-capacity constraint of a tank has been registered,
\* the constructor had returned, a layer of every level was in the graph, and
\* the layer list passed to the constraint was that complete list.
C12_LimitAfterAllLayers ==
    \A t \in Tanks :
        shared_limits[t] # <<>> =>
            /\ pc[t] = "done"
            /\ Len(energy_system[t]) = Len(temperature_levels)
            /\ \A i \in 1..Len(temperature_levels) :
                  LayerOfLevel(energy_system[t][i], i)
            /\ \A k \in 1..Len(shared_limits[t]) :
                  shared_limits[t][k].components = energy_system[t]

\* the constraint of a tank of three levels has been registered
C12_Witness ==
    \E t \in Tanks :
        /\ Len(shared_limits[t]) >= 1
        /\ Len(shared_limits[t][1].components) = 3

\* C13: after a successful construction with N levels the builder holds, and
\* the graph has, exactly N layers, the i-th of level i; a registered
\* constraint has exactly N weights and N layers, and its i-th weight belongs
\* to the level of its i-th layer: weight times that layer's capacity is
\* volume / 3600.
C13_OneLayerAndWeightPerLevel ==
    \A t \in Tanks :
        pc[t] = "done" =>
            /\ Len(h_storage_comp[t]) = Len(temperature_levels)
            /\ Len(energy_system[t]) = Len(temperature_levels)
            /\ \A i \in 1..Len(temperature_levels) :
                  /\ LayerOfLevel(h_storage_comp[t][i], i)
                  /\ LayerOfLevel(energy_system[t][i], i)
            /\ \A k \in 1..Len(shared_limits[t]) :
                  LET limit == shared_limits[t][k]
                  IN  /\ Len(limit.weights) = Len(temperature_levels)
                      /\ Len(limit.components) = Len(temperature_levels)
                      /\ \A i \in 1..Len(temperature_levels) :
                            /\ LayerOfLevel(limit.components[i], i)
                            /\ FClose(FMul(limit.weights[i],
                                           limit.components[i].nominal_storage_capacity),
                                      FDiv(volume, SECONDS_PER_HOUR), F(1, -5))

\* a constraint over three levels, the first and last of them different in
\* energy density
C13_Witness ==
    \E t \in Tanks :
        /\ pc[t] = "done"
        /\ Len(temperature_levels) = 3
        /\ Len(shared_limits[t]) >= 1
        /\ Len(shared_limits[t][1].weights) = 3
        /\ shared_limits[t][1].weights[1] # shared_limits[t][1].weights[3]

\* C14: for levels strictly increasing and all strictly above the reference,
\* the weights of add_shared_limit are all positive and strictly decreasing
\* with the level: T_i < T_j implies w_i > w_j.
C14_WeightsPositiveDecreasing ==
    (StrictlyIncreasing(temperature_levels) /\ ValidTank) =>
        \A t \in Tanks : \A k \in 1..Len(shared_limits[t]) :
            LET w == shared_limits[t][k].weights
            IN  /\ Len(w) = Len(temperature_levels)
                /\ \A i \in 1..Len(w) : FLt(FZero, w[i])
                /\ \A i, j \in 1..Len(w) :
                      FLt(temperature_levels[i], temperature_levels[j]) =>
                          FLt(w[j], w[i])

\* the constraint of a valid tank of three increasing levels has been registered
C14_Witness ==
    /\ StrictlyIncreasing(temperature_levels) /\ ValidTank
    /\ Len(temperature_levels) = 3
    /\ \E t \in Tanks : Len(shared_limits[t]) >= 1

\* C15: a layer's nominal capacity has the sign of level - reference, both as
\* HeatLayers exposes them: positive for a level strictly above the reference,
\* non-positive for a level at or below it, and strictly increasing with the
\* level (the volume being positive).
C15_CapacitySignOfLevelMinusReference ==
    \A t \in Tanks : \A i \in 1..Len(h_storage_comp[t]) :
        LET level == temperature_levels[i]
            capacity == h_storage_comp[t][i].nominal_storage_capacity
        IN  /\ FLt(reference_temperature, level) => FLt(FZero, capacity)
            /\ FLe(level, reference_temperature) => FLe(capacity, FZero)
            /\ \A j \in 1..Len(h_storage_comp[t]) :
                  FLt(level, temperature_levels[j]) =>
                      FLt(capacity, h_storage_comp[t][j].nominal_storage_capacity)

(***************************************************************************)
(* Properties of the physics functions (specification SpecPhysics)         *)
(***************************************************************************)
\* the last two calls were of fn with the same source temperature, no low
\* sides, and the earlier call's sink temperature below the later one's
SinkRaised(fn) ==
    /\ prev_call.fn = fn /\ last_call.fn = fn
    /\ prev_call.in_low = None /\ prev_call.out_low = None
    /\ last_call.in_low = None /\ last_call.out_low = None
    /\ prev_call.temp_in = last_call.temp_in
    /\ FLt(prev_call.temp_out, last_call.temp_out)

\* the lower sink temperature is more than 1e-3 K above the source
AboveClamp == FLt(FAdd(prev_call.temp_in, F(1, -3)), prev_call.temp_out)

\* the lower sink temperature is at least 1e-3 K above the source
AtOrAboveClamp == FLe(FAdd(prev_call.temp_in, F(1, -3)), prev_call.temp_out)

\* C8 as claimed: carnot_efficiency is non-decreasing in t_out for
\* t_in > 0 and t_out > t_in + 1e-3.
C8_CarnotNonDecreasing ==
    (SinkRaised("carnot_efficiency") /\ FLt(FZero, prev_call.temp_in) /\ AboveClamp) =>
        FLe(prev_call.result, last_call.result)

\* C8 amended: carnot_efficiency is non-increasing in t_out for t_in > 0 and
\* t_out > t_in + 1e-3: raising t_out never raises the result.
C8_CarnotNonIncreasing ==
    (SinkRaised("carnot_efficiency") /\ FLt(FZero, prev_call.temp_in) /\ AboveClamp) =>
        FLe(last_call.result, prev_call.result)

\* carnot_efficiency was called twice, the sink raised from 20 degC to 50 degC
C8_Witness ==
    /\ SinkRaised("carnot_efficiency") /\ AboveClamp
    /\ prev_call.temp_out = F(29315, -2)
    /\ last_call.temp_out = F(32315, -2)

\* C9 as claimed: for sink temperatures t1 < t2 both above the source,
\* calc_cop(source, t2) is finite and strictly less than calc_cop(source, t1),
\* for the calc_cop of mtress.physics and of meta_model.physics.
C9_CopStrictlyDecreasing ==
    \A fn \in {"calc_cop", "meta_model.calc_cop"} :
        (SinkRaised(fn) /\ FLt(prev_call.temp_in, prev_call.temp_out)) =>
            /\ ~IsNaN(last_call.result)
            /\ FLt(last_call.result, prev_call.result)

\* C9 amended: for sink temperatures t1 < t2 with t1 at least 1e-3 K above the
\* source, calc_cop(source, t2) of mtress.physics is finite and strictly less
\* than calc_cop(source, t1); calc_cop of meta_model.physics is finite, never
\* above its cap 4.7 and never greater at t2 than at t1, and strictly less
\* where the value at t1 is below the cap.
C9_CopDecreasingAboveClamp ==
    /\ (SinkRaised("calc_cop") /\ AtOrAboveClamp) =>
          /\ ~IsNaN(last_call.result)
          /\ FLt(last_call.result, prev_call.result)
    /\ (SinkRaised("meta_model.calc_cop") /\ AtOrAboveClamp) =>
          /\ ~IsNaN(last_call.result)
          /\ FLe(last_call.result, F(47, -1))
          /\ FLe(last_call.result, prev_call.result)
          /\ FLt(prev_call.result, F(47, -1)) =>
                FLt(last_call.result, prev_call.result)

\* calc_cop(celsius_to_kelvin(10), celsius_to_kelvin(35)) and then
\* calc_cop(celsius_to_kelvin(10), celsius_to_kelvin(50)) were called
C9_Witness ==
    /\ SinkRaised("calc_cop")
    /\ prev_call.temp_in = F(28315, -2)
    /\ prev_call.temp_out = F(30815, -2)
    /\ last_call.temp_out = F(32315, -2)

\* the last call was fn(0 degC, 35 degC) in Kelvin with the given low sides
AtB0W35(fn, in_low, out_low) ==
    /\ last_call.fn = fn
    /\ last_call.temp_in = F(27315, -2)
    /\ last_call.temp_out = F(30815, -2)
    /\ last_call.in_low = in_low
    /\ last_call.out_low = out_low

\* C10 as claimed: calc_cop(celsius_to_kelvin(0), celsius_to_kelvin(35)) with no
\* low sides and the default cop_0_35 returns 4.6 (here: to within 1 %).
C10_SingleCallReturnsCopRef ==
    AtB0W35("calc_cop", None, None) => FClose(last_call.result, COP_0_35, F(1, -2))

\* C10 amended: that call returns about 4.505 (between 4.50 and 4.51), more
\* than 2 % below 4.6; 4.6 is what the call with the norm glides returns,
\* calc_cop(0 degC, 35 degC, -3 degC, 30 degC); the calc_cop of
\* meta_model.physics returns its own reference COP 4.7 at 0 degC / 35 degC.
C10_CalibrationPoint ==
    /\ AtB0W35("calc_cop", None, None) =>
          /\ FLt(F(450, -2), last_call.result)
          /\ FLt(last_call.result, F(451, -2))
    /\ AtB0W35("calc_cop", Some(F(27015, -2)), Some(F(30315, -2))) =>
          FClose(last_call.result, COP_0_35, F(1, -5))
    /\ AtB0W35("meta_model.calc_cop", None, None) =>
          FClose(last_call.result, F(47, -1), F(1, -5))

\* calc_cop(celsius_to_kelvin(0), celsius_to_kelvin(35)) has returned, after the
\* call with the norm glides
C10_Witness ==
    /\ AtB0W35("calc_cop", None, None)
    /\ prev_call.fn = "calc_cop"
    /\ prev_call.in_low = Some(F(27015, -2))
    /\ prev_call.out_low = Some(F(30315, -2))

\* the last two calls were carnot_efficiency and then lorenz_cop, or the
\* reverse, with the same arguments
SameArguments ==
    /\ {prev_call.fn, last_call.fn} = {"carnot_efficiency", "lorenz_cop"}
    /\ prev_call.temp_in = last_call.temp_in
    /\ prev_call.temp_out = last_call.temp_out

\* C11: carnot_efficiency and lorenz_cop both return
\* t_out / max(t_out - t_in, 1e-3) for t_out > 0: a finite, positive number,
\* equal to t_out / 1e-3 whenever t_out <= t_in and to t_out / (t_out - t_in)
\* when the lift is above 1e-3; called with the same arguments the two return
\* the same value.
C11_SameClampedFormula ==
    /\ (last_call.fn \in {"carnot_efficiency", "lorenz_cop"}
            /\ FLt(FZero, last_call.temp_out)) =>
          /\ ~IsNaN(last_call.result)
          /\ FLt(FZero, last_call.result)
          /\ FLe(last_call.temp_out, last_call.temp_in) =>
                last_call.result = FDiv(last_call.temp_out, F(1, -3))
          /\ FLt(F(1, -3), FSub(last_call.temp_out, last_call.temp_in)) =>
                last_call.result =
                    FDiv(last_call.temp_out, FSub(last_call.temp_out, last_call.temp_in))
    /\ SameArguments => prev_call.result = last_call.result

\* both were called with a sink 20 K below the source
C11_Witness ==
    /\ SameArguments
    /\ last_call.temp_in = F(28315, -2)
    /\ last_call.temp_out = F(26315, -2)

\* the effective temperature of a side as claimed: the log-mean whenever a low
\* side is supplied, the number zero included
SuppliedEffective(high, low) ==
    IF low = None THEN high ELSE mean_logarithmic_temperature(high, low[1])

\* C16: in calc_cop of mtress.physics each side's effective temperature is
\* mean_logarithmic_temperature(high, low) whenever a low side is supplied,
\* the number 0 included, and the high bound otherwise; the result is
\* cpf * lorenz_cop(effective_in, effective_out) with
\* cpf = cop_ref / lorenz_cop of the log-mean norm temperatures.
C16_SuppliedLowSideUsesLogMean ==
    last_call.fn = "calc_cop" =>
        last_call.result =
            FMul(FDiv(COP_0_35, lorenz_cop(temp_input_norm, temp_output_norm)),
                 lorenz_cop(SuppliedEffective(last_call.temp_in, last_call.in_low),
                            SuppliedEffective(last_call.temp_out, last_call.out_low)))

====
